---- MODULE Spec2Model ----
(***************************************************************************)
(* Tic-tac-toe: the modular engine (board.py, player.py, game.py, main.py) *)
(* and the single-script engine (revised_tictactoe_onescript.py).          *)
(*                                                                         *)
(* A behaviour exercises one of the two programs, chosen in Init.          *)
(*   Spec      drives the engines: Game.apply_move, Game.reset,            *)
(*             GameEngine.play_turn                                        *)
(*   SpecBoard drives the two Board classes directly, with any arguments   *)
(*   SpecMoves drives board.py's Board with valid placements and follows   *)
(*             the lists available_moves / legal_moves hand out            *)
(* The operations are pure operators on the objects' fields; the actions   *)
(* apply them to the variables and record the call in `last`.              *)
(***************************************************************************)
EXTENDS Integers, Sequences, FiniteSets, TLC

VARIABLES
    program,          \* which program the behaviour exercises
    _grid,            \* board.py  Board._grid (None / "X" / "O")
    _turn_idx,        \* game.py   Game._turn_idx
    _state,           \* game.py   Game._state
    _winner_symbol,   \* game.py   Game._winner_symbol
    grid,             \* revised   Board.grid (" " / "X" / "O")
    current_index,    \* revised   GameEngine.current_index
    winner,           \* revised   GameEngine.winner (None / a player)
    is_draw,          \* revised   GameEngine.is_draw
    last,             \* the last call: operation, what it raised, caught and returned
    returned,         \* the list a caller still holds from available_moves / legal_moves
    held,             \* number of calls made since that list was returned
    players,          \* the symbols of the two players the engine was built with
    pc                \* where the caller is: "setup", "ready", "failed", "run", "done", "crashed"

vars == <<program, _grid, _turn_idx, _state, _winner_symbol,
          grid, current_index, winner, is_draw, last, returned, held, players, pc>>

gameVars   == <<_grid, _turn_idx, _state, _winner_symbol>>
engineVars == <<grid, current_index, winner, is_draw>>

-----------------------------------------------------------------------------
(* Constants of the programs and bounds of the model *)

SIZE == 3

\* Move attempts draw row and col from -Margin .. SIZE-1+Margin.
Margin == 1

\* A returned list is followed through at most MaxHeld later calls.
MaxHeld == 1

Idx == 0..(SIZE - 1)
Coords == (0 - Margin)..(SIZE - 1 + Margin)

None == "None"
Blank == " "
VALID_SYMBOLS == {"X", "O"}

\* Symbols offered to place_mark: the two valid ones and an unknown one
OfferedSymbols == VALID_SYMBOLS \cup {"Z"}

\* Python's True / False / None as returned values
PyTrue == "True"
PyFalse == "False"

IN_PROGRESS == "IN_PROGRESS"
WIN == "WIN"
DRAW == "DRAW"

NoList == <<"no list">>

-----------------------------------------------------------------------------
(* board.py *)

Board_init == [r \in Idx |-> [c \in Idx |-> None]]

Board_reset(g) == [r \in Idx |-> [c \in Idx |-> None]]

_validate_coords(row, col) == 0 <= row /\ row < SIZE /\ 0 <= col /\ col < SIZE

_validate_symbol(symbol) == symbol \in VALID_SYMBOLS

is_cell_empty(g, row, col) == g[row][col] = None

\* a bug: the three rows are one shared list ([[None]*3]*3)
Board_set_cell_aliased(g, row, col, symbol) ==
    [r \in Idx |-> [g[r] EXCEPT ![col] = symbol]]

Board_set_cell(g, row, col, symbol) == [g EXCEPT ![row][col] = symbol]

\* a bug: the occupancy check is missing
Board_place_mark_overwrite(g, row, col, symbol) ==
    IF ~_validate_coords(row, col)
    THEN [grid |-> g, raised |-> "ValueError", msg |-> "out of range"]
    ELSE IF ~_validate_symbol(symbol)
    THEN [grid |-> g, raised |-> "ValueError", msg |-> "invalid symbol"]
    ELSE [grid |-> Board_set_cell(g, row, col, symbol), raised |-> None, msg |-> None]

\* the grid after place_mark(row, col, symbol), what it raised and the
\* kind of message the ValueError carries
Board_place_mark(g, row, col, symbol) ==
    IF ~_validate_coords(row, col)
    THEN [grid |-> g, raised |-> "ValueError", msg |-> "out of range"]
    ELSE IF ~_validate_symbol(symbol)
    THEN [grid |-> g, raised |-> "ValueError", msg |-> "invalid symbol"]
    ELSE IF ~is_cell_empty(g, row, col)
    THEN [grid |-> g, raised |-> "ValueError", msg |-> "occupied"]
    ELSE [grid |-> Board_set_cell(g, row, col, symbol), raised |-> None, msg |-> None]

\* the double loop of available_moves, from cell number k = SIZE*r + c on
RECURSIVE available_from(_, _)
available_from(g, k) ==
    IF k >= SIZE * SIZE THEN <<>>
    ELSE LET r == k \div SIZE
             c == k % SIZE
         IN  (IF g[r][c] = None THEN << <<r, c>> >> ELSE <<>>)
             \o available_from(g, k + 1)

\* a bug: the loops are nested the other way round (column-major)
available_moves_column_major(g) ==
    LET t == [r \in Idx |-> [c \in Idx |-> g[c][r]]]
        m == available_from(t, 0)
    IN  [i \in 1..Len(m) |-> <<m[i][2], m[i][1]>>]

available_moves(g) == available_from(g, 0)

\* a bug: the board is never seen as full
is_full_never(g) == FALSE

is_full(g) == \A r \in Idx : \A c \in Idx : g[r][c] # None

-----------------------------------------------------------------------------
(* player.py *)

\* Game.__init__ accepts only (X, O): _players[0] holds X, _players[1] holds O
Game_player_symbol(i) == IF i = 0 THEN "X" ELSE "O"

Player_make_move(g, symbol, row, col) == Board_place_mark(g, row, col, symbol)

-----------------------------------------------------------------------------
(* game.py *)

\* a bug: the anti-diagonal is mistyped
WIN_LINES_typo ==
    << << <<0, 0>>, <<0, 1>>, <<0, 2>> >>,
       << <<1, 0>>, <<1, 1>>, <<1, 2>> >>,
       << <<2, 0>>, <<2, 1>>, <<2, 2>> >>,
       << <<0, 0>>, <<1, 0>>, <<2, 0>> >>,
       << <<0, 1>>, <<1, 1>>, <<2, 1>> >>,
       << <<0, 2>>, <<1, 2>>, <<2, 2>> >>,
       << <<0, 0>>, <<1, 1>>, <<2, 2>> >>,
       << <<0, 2>>, <<1, 1>>, <<2, 1>> >> >>

WIN_LINES ==
    << << <<0, 0>>, <<0, 1>>, <<0, 2>> >>,
       << <<1, 0>>, <<1, 1>>, <<1, 2>> >>,
       << <<2, 0>>, <<2, 1>>, <<2, 2>> >>,
       << <<0, 0>>, <<1, 0>>, <<2, 0>> >>,
       << <<0, 1>>, <<1, 1>>, <<2, 1>> >>,
       << <<0, 2>>, <<1, 2>>, <<2, 2>> >>,
       << <<0, 0>>, <<1, 1>>, <<2, 2>> >>,
       << <<0, 2>>, <<1, 1>>, <<2, 0>> >> >>

_cell_symbol(g, r, c) == g[r][c]

\* the loop over WIN_LINES from line i on: the first uniform line decides
RECURSIVE find_winner_from(_, _)
find_winner_from(g, i) ==
    IF i > Len(WIN_LINES) THEN None
    ELSE LET a == WIN_LINES[i][1]
             b == WIN_LINES[i][2]
             c == WIN_LINES[i][3]
             s1 == _cell_symbol(g, a[1], a[2])
             s2 == _cell_symbol(g, b[1], b[2])
             s3 == _cell_symbol(g, c[1], c[2])
         IN  IF s1 # None /\ s1 = s2 /\ s2 = s3 THEN s1
             ELSE find_winner_from(g, i + 1)

_find_winner_symbol(g) == find_winner_from(g, 1)

\* a bug: the full-board test comes before the winner scan
_update_state_draw_first(g, st, ws) ==
    IF is_full(g) THEN [state |-> DRAW, winner_symbol |-> ws]
    ELSE LET w == _find_winner_symbol(g)
         IN  IF w # None THEN [state |-> WIN, winner_symbol |-> w]
             ELSE [state |-> st, winner_symbol |-> ws]

_update_state_after_move(g, st, ws) ==
    LET w == _find_winner_symbol(g)
    IN  IF w # None THEN [state |-> WIN, winner_symbol |-> w]
        ELSE IF is_full(g) THEN [state |-> DRAW, winner_symbol |-> ws]
        ELSE [state |-> st, winner_symbol |-> ws]

\* a bug: the turn is swapped after every successful move
turn_after_move_always_swap(st, idx) == 1 - idx

\* `if self._state is GameState.IN_PROGRESS: self._swap_turn()` (idx ^= 1)
turn_after_move(st, idx) == IF st = IN_PROGRESS THEN 1 - idx ELSE idx

\* a bug: the game-over guard is missing
Game_is_locked_never(st) == FALSE

\* `if self._state is not GameState.IN_PROGRESS: raise RuntimeError`
Game_is_locked(st) == st # IN_PROGRESS

\* Game.apply_move(row, col) on a Game whose fields are g, idx, st, ws:
\* the fields after the call and what the call raised
Game_apply_move(g, idx, st, ws, row, col) ==
    IF Game_is_locked(st)
    THEN [grid |-> g, turn_idx |-> idx, state |-> st, winner_symbol |-> ws,
          raised |-> "RuntimeError", msg |-> "game over"]
    ELSE LET m == Player_make_move(g, Game_player_symbol(idx), row, col)
         IN  IF m.raised # None
             THEN [grid |-> g, turn_idx |-> idx, state |-> st, winner_symbol |-> ws,
                   raised |-> m.raised, msg |-> m.msg]
             ELSE LET u == _update_state_after_move(m.grid, st, ws)
                  IN  [grid |-> m.grid,
                       turn_idx |-> turn_after_move(u.state, idx),
                       state |-> u.state,
                       winner_symbol |-> u.winner_symbol,
                       raised |-> None, msg |-> None]

\* a bug: reset forgets the turn index
Game_reset_keep_turn(idx) == idx

\* `self._turn_idx = 0` in Game.reset
Game_reset_turn(idx) == 0

\* a bug: reset forgets to clear the winner
Game_reset_keeps_winner(g, idx, st, ws) ==
    [grid |-> Board_reset(g), turn_idx |-> Game_reset_turn(idx),
     state |-> IN_PROGRESS, winner_symbol |-> ws]

\* the fields after Game.reset()
Game_reset(g, idx, st, ws) ==
    [grid |-> Board_reset(g), turn_idx |-> Game_reset_turn(idx),
     state |-> IN_PROGRESS, winner_symbol |-> None]

-----------------------------------------------------------------------------------------------------------------------------------------------------
(* revised_tictactoe_onescript.py *)

Revised_Board_init == [r \in Idx |-> [c \in Idx |-> Blank]]

Revised_Board_reset(g) == [r \in Idx |-> [c \in Idx |-> Blank]]

\* a bug: the three rows are one shared list
Revised_Board_set_cell_aliased(g, row, col, symbol) ==
    [r \in Idx |-> [g[r] EXCEPT ![col] = symbol]]

Revised_Board_set_cell(g, row, col, symbol) == [g EXCEPT ![row][col] = symbol]

\* a bug: the occupancy check is missing
Revised_Board_place_mark_overwrite(g, row, col, symbol) ==
    IF symbol \notin {"X", "O"}
    THEN [grid |-> g, raised |-> "ValueError", ret |-> None]
    ELSE IF ~(0 <= row /\ row < SIZE /\ 0 <= col /\ col < SIZE)
    THEN [grid |-> g, raised |-> "IndexError", ret |-> None]
    ELSE [grid |-> Revised_Board_set_cell(g, row, col, symbol),
          raised |-> None, ret |-> PyTrue]

\* the grid after place_mark(row, col, symbol), what it raised or returned
Revised_Board_place_mark(g, row, col, symbol) ==
    IF symbol \notin {"X", "O"}
    THEN [grid |-> g, raised |-> "ValueError", ret |-> None]
    ELSE IF ~(0 <= row /\ row < SIZE /\ 0 <= col /\ col < SIZE)
    THEN [grid |-> g, raised |-> "IndexError", ret |-> None]
    ELSE IF g[row][col] # Blank
    THEN [grid |-> g, raised |-> None, ret |-> PyFalse]
    ELSE [grid |-> Revised_Board_set_cell(g, row, col, symbol),
          raised |-> None, ret |-> PyTrue]

\* a bug: the board is never seen as full
Revised_Board_is_full_never(g) == FALSE

Revised_Board_is_full(g) == \A r \in Idx : \A c \in Idx : g[r][c] # Blank

\* Player.make_move: IndexError and ValueError are caught and become False
Revised_Player_make_move(g, symbol, row, col) ==
    LET m == Revised_Board_place_mark(g, row, col, symbol)
    IN  IF m.raised \in {"IndexError", "ValueError"}
        THEN [grid |-> g, ret |-> PyFalse, caught |-> m.raised]
        ELSE [grid |-> m.grid, ret |-> m.ret, caught |-> None]

\* a bug: current_player is always player_one
Engine_player_symbol_first(i) == players[1]

\* (self.player_one, self.player_two)[i].symbol; create_console_game builds
\* the engine with X for player_one and O for player_two
Engine_player_symbol(i) == players[i + 1]

Engine_player(i) == IF i = 0 THEN "player_one" ELSE "player_two"

\* the lines _check_winner collects: rows, columns, diagonal, anti-diagonal
Engine_lines(g) ==
    [k \in 1..(2 * SIZE + 2) |->
        IF k <= SIZE THEN [i \in Idx |-> g[k - 1][i]]
        ELSE IF k <= 2 * SIZE THEN [i \in Idx |-> g[i][k - SIZE - 1]]
        ELSE IF k = 2 * SIZE + 1 THEN [i \in Idx |-> g[i][i]]
        ELSE [i \in Idx |-> g[i][SIZE - 1 - i]]]

_check_winner(g, symbol) ==
    \E k \in 1..(2 * SIZE + 2) : \A i \in Idx : Engine_lines(g)[k][i] = symbol

\* a bug: the full-board test comes before the winner check
Engine_outcome_draw_first(g, idx) ==
    IF Revised_Board_is_full(g) THEN "draw"
    ELSE IF _check_winner(g, Engine_player_symbol(idx)) THEN "won"
    ELSE "continue"

\* what play_turn decides after a placement: lines 82-88
Engine_outcome(g, idx) ==
    IF _check_winner(g, Engine_player_symbol(idx)) THEN "won"
    ELSE IF Revised_Board_is_full(g) THEN "draw"
    ELSE "continue"

\* a bug: the game-over guard is missing
Engine_is_over_never(w, d) == FALSE

\* `if self.winner or self.is_draw: return False`
Engine_is_over(w, d) == w # None \/ d

\* a bug: the turn is swapped although the placement failed
Engine_rejected_swaps(g, idx, w, d, caught) ==
    [grid |-> g, current_index |-> 1 - idx, winner |-> w, is_draw |-> d,
     ret |-> PyFalse, caught |-> caught]

\* `if not self.current_player.make_move(...): return False`
Engine_rejected(g, idx, w, d, caught) ==
    [grid |-> g, current_index |-> idx, winner |-> w, is_draw |-> d,
     ret |-> PyFalse, caught |-> caught]

\* GameEngine.play_turn(row, col) on an engine whose fields are g, idx, w, d:
\* the fields after the call, what it returned, what make_move caught
GameEngine_play_turn(g, idx, w, d, row, col) ==
    IF Engine_is_over(w, d) THEN Engine_rejected(g, idx, w, d, None)
    ELSE LET m == Revised_Player_make_move(g, Engine_player_symbol(idx), row, col)
         IN  IF m.ret # PyTrue THEN Engine_rejected(g, idx, w, d, m.caught)
             ELSE LET o == Engine_outcome(m.grid, idx)
                  IN  [grid |-> m.grid,
                       current_index |-> IF o = "continue" THEN 1 - idx ELSE idx,
                       winner |-> IF o = "won" THEN Engine_player(idx) ELSE w,
                       is_draw |-> IF o = "draw" THEN TRUE ELSE d,
                       ret |-> PyTrue, caught |-> None]

-----------------------------------------------------------------------------
(* Lists handed to a caller *)

\* a bug: available_moves hands out a live view of the board
list_after_call_live(lst, g) == IF lst = NoList THEN NoList ELSE available_moves(g)

\* available_moves builds a new list (`moves = []`) that the board keeps no
\* reference to: a later call on the board, leaving grid g, does not touch it
list_after_call(lst, g) == lst

-----------------------------------------------------------------------------
(* Initial state: both programs freshly constructed *)

\* the status of a GameEngine, read off winner and is_draw
Engine_status(w, d) == IF w # None THEN WIN ELSE IF d THEN DRAW ELSE IN_PROGRESS

\* `last` before any call; `was` is the engine's status when the call was made
NoCall ==
    [op |-> "init", was |-> None, raised |-> None, msg |-> None,
     caught |-> None, ret |-> None]

Init ==
    /\ program \in {"modular", "onescript"}
    /\ _grid = Board_init
    /\ _turn_idx = 0
    /\ _state = IN_PROGRESS
    /\ _winner_symbol = None
    /\ grid = Revised_Board_init
    /\ current_index = 0
    /\ winner = None
    /\ is_draw = FALSE
    /\ last = NoCall
    /\ returned = NoList
    /\ held = 0
    /\ players = <<"X", "O">>
    /\ pc = "ready"

\* the caller's list across a call that leaves board.py's grid g: followed
\* for MaxHeld calls, then dropped
HoldList(g) ==
    IF returned = NoList THEN UNCHANGED <<returned, held>>
    ELSE IF held < MaxHeld
    THEN returned' = list_after_call(returned, g) /\ held' = held + 1
    ELSE returned' = NoList /\ held' = 0

-----------------------------------------------------------------------------
(* Engine operations *)

ApplyMove(row, col) ==
    /\ program = "modular"
    /\ \E a \in {Game_apply_move(_grid, _turn_idx, _state, _winner_symbol, row, col)} :
          /\ _grid' = a.grid
          /\ _turn_idx' = a.turn_idx
          /\ _state' = a.state
          /\ _winner_symbol' = a.winner_symbol
          /\ last' = [NoCall EXCEPT !.op = "apply_move", !.was = _state,
                                    !.raised = a.raised, !.msg = a.msg]
          /\ HoldList(a.grid)
    /\ UNCHANGED <<program, players, pc, engineVars>>

Reset ==
    /\ program = "modular"
    /\ \E a \in {Game_reset(_grid, _turn_idx, _state, _winner_symbol)} :
          /\ _grid' = a.grid
          /\ _turn_idx' = a.turn_idx
          /\ _state' = a.state
          /\ _winner_symbol' = a.winner_symbol
          /\ HoldList(a.grid)
    /\ last' = [NoCall EXCEPT !.op = "reset", !.was = _state]
    /\ UNCHANGED <<program, players, pc, engineVars>>

PlayTurn(row, col) ==
    /\ program = "onescript"
    /\ \E a \in {GameEngine_play_turn(grid, current_index, winner, is_draw, row, col)} :
          /\ grid' = a.grid
          /\ current_index' = a.current_index
          /\ winner' = a.winner
          /\ is_draw' = a.is_draw
          /\ last' = [NoCall EXCEPT !.op = "play_turn",
                                    !.was = Engine_status(winner, is_draw),
                                    !.ret = a.ret, !.caught = a.caught]
    /\ UNCHANGED <<program, players, pc, gameVars, returned, held>>

Next ==
    \/ \E row \in Coords, col \in Coords : ApplyMove(row, col)
    \/ Reset
    \/ \E row \in Coords, col \in Coords : PlayTurn(row, col)

Spec == Init /\ [][Next]_vars

-----------------------------------------------------------------------------
(* Board operations, called directly *)

PlaceMark(row, col, symbol) ==
    /\ program = "modular"
    /\ \E a \in {Board_place_mark(_grid, row, col, symbol)} :
          /\ _grid' = a.grid
          /\ last' = [NoCall EXCEPT !.op = "place_mark", !.raised = a.raised,
                                    !.msg = a.msg]
          /\ HoldList(a.grid)
    /\ UNCHANGED <<program, players, pc, _turn_idx, _state, _winner_symbol, engineVars>>

BoardReset ==
    /\ program = "modular"
    /\ _grid' = Board_reset(_grid)
    /\ last' = [NoCall EXCEPT !.op = "board_reset"]
    /\ HoldList(Board_reset(_grid))
    /\ UNCHANGED <<program, players, pc, _turn_idx, _state, _winner_symbol, engineVars>>

\* board.available_moves(): the caller keeps the list
AvailableMoves ==
    /\ program = "modular"
    /\ returned' = available_moves(_grid)
    /\ held' = 0
    /\ last' = [NoCall EXCEPT !.op = "available_moves"]
    /\ UNCHANGED <<program, players, pc, gameVars, engineVars>>

Game_legal_moves(g) == available_moves(g)

\* Game(px, po, board).legal_moves() on a Game that wraps the board
LegalMoves ==
    /\ program = "modular"
    /\ returned' = Game_legal_moves(_grid)
    /\ held' = 0
    /\ last' = [NoCall EXCEPT !.op = "legal_moves"]
    /\ UNCHANGED <<program, players, pc, gameVars, engineVars>>

RevisedPlaceMark(row, col, symbol) ==
    /\ program = "onescript"
    /\ \E a \in {Revised_Board_place_mark(grid, row, col, symbol)} :
          /\ grid' = a.grid
          /\ last' = [NoCall EXCEPT !.op = "place_mark", !.raised = a.raised,
                                    !.ret = a.ret]
    /\ UNCHANGED <<program, players, pc, gameVars, current_index, winner, is_draw, returned, held>>

RevisedBoardReset ==
    /\ program = "onescript"
    /\ grid' = Revised_Board_reset(grid)
    /\ last' = [NoCall EXCEPT !.op = "board_reset"]
    /\ UNCHANGED <<program, players, pc, gameVars, current_index, winner, is_draw, returned, held>>

NextBoard ==
    \/ \E row \in Coords, col \in Coords, symbol \in OfferedSymbols :
          PlaceMark(row, col, symbol)
    \/ BoardReset
    \/ \E row \in Coords, col \in Coords, symbol \in OfferedSymbols :
          RevisedPlaceMark(row, col, symbol)
    \/ RevisedBoardReset

SpecBoard == Init /\ [][NextBoard]_vars

\* board.py's Board under valid placements, with the lists it hands out
NextMoves ==
    \/ \E row \in Idx, col \in Idx, symbol \in VALID_SYMBOLS :
          PlaceMark(row, col, symbol)
    \/ BoardReset
    \/ AvailableMoves
    \/ LegalMoves

SpecMoves == Init /\ [][NextMoves]_vars

-----------------------------------------------------------------------------
(* Vocabulary of the properties *)

\* the eight lines, as sets of cells: 3 rows, 3 columns, 2 diagonals
Lines ==
    {{<<r, c>> : c \in Idx} : r \in Idx}
    \cup {{<<r, c>> : r \in Idx} : c \in Idx}
    \cup {{<<i, i>> : i \in Idx}, {<<i, SIZE - 1 - i>> : i \in Idx}}

HasLineOf(g, s) == \E L \in Lines : \A p \in L : g[p[1]][p[2]] = s

HasLine(g) == HasLineOf(g, "X") \/ HasLineOf(g, "O")

Marks(g, s) == Cardinality({p \in Idx \X Idx : g[p[1]][p[2]] = s})

Occupied(g) == Marks(g, "X") + Marks(g, "O")

\* the step is an apply_move / play_turn call that was accepted
AcceptedApplyMove == last'.op = "apply_move" /\ last'.raised = None
AcceptedPlayTurn == last'.op = "play_turn" /\ last'.ret = PyTrue

GameOver == _state \in {WIN, DRAW}
EngineOver == winner # None \/ is_draw

\* the fields of a freshly constructed Game / GameEngine
FreshGame ==
    [grid |-> [r \in Idx |-> [c \in Idx |-> None]], turn_idx |-> 0,
     state |-> IN_PROGRESS, winner_symbol |-> None]

GameFields ==
    [grid |-> _grid, turn_idx |-> _turn_idx, state |-> _state,
     winner_symbol |-> _winner_symbol]

EngineFields ==
    [grid |-> grid, current_index |-> current_index, winner |-> winner,
     is_draw |-> is_draw]

-----------------------------------------------------------------------------
(* C1 *)

\* C1: a new Game has the X-holder to move; an accepted apply_move that
\* leaves the game IN_PROGRESS hands the turn to the other player; an
\* accepted apply_move that ends the game (WIN or DRAW) leaves the mover
\* as the current player.
C1_TurnOrder ==
    /\ Game_player_symbol(_turn_idx) = "X"
    /\ [][AcceptedApplyMove =>
            /\ _state' = IN_PROGRESS =>
                  /\ _turn_idx' = 1 - _turn_idx
                  /\ Game_player_symbol(_turn_idx') # Game_player_symbol(_turn_idx)
            /\ _state' \in {WIN, DRAW} => _turn_idx' = _turn_idx]_vars

\* O has just won and is still the current player
C1_Witness ==
    /\ last.op = "apply_move" /\ last.raised = None
    /\ _state = WIN /\ _winner_symbol = "O" /\ _turn_idx = 1

-----------------------------------------------------------------------------
(* C2 *)

\* C2: once the game is over, every move attempt (any row and col, in or
\* out of range, empty cell or not) is rejected with the game-over outcome
\* and changes neither board, turn, status nor winner: Game.apply_move
\* raises RuntimeError, GameEngine.play_turn returns False.
C2_GameOverRejects ==
    /\ GameOver =>
          \A row \in Coords, col \in Coords :
             Game_apply_move(_grid, _turn_idx, _state, _winner_symbol, row, col)
               = [grid |-> _grid, turn_idx |-> _turn_idx, state |-> _state,
                  winner_symbol |-> _winner_symbol,
                  raised |-> "RuntimeError", msg |-> "game over"]
    /\ EngineOver =>
          \A row \in Coords, col \in Coords :
             GameEngine_play_turn(grid, current_index, winner, is_draw, row, col)
               = [grid |-> grid, current_index |-> current_index, winner |-> winner,
                  is_draw |-> is_draw, ret |-> PyFalse, caught |-> None]

\* a move was attempted on a won game with empty cells left, and rejected
C2_Witness ==
    /\ last.op = "apply_move" /\ last.was = WIN /\ last.raised = "RuntimeError"
    /\ _state = WIN /\ ~is_full(_grid)

-----------------------------------------------------------------------------
(* C3 *)

OutOfRange(row, col) == ~(row \in Idx /\ col \in Idx)

\* C3: while the game is in progress, an attempt at a cell out of range or
\* already occupied is reported (Game.apply_move raises ValueError,
\* GameEngine.play_turn returns False) and changes nothing.
C3_FailedPlacementChangesNothing ==
    /\ ~GameOver =>
          \A row \in Coords, col \in Coords :
             LET a == Game_apply_move(_grid, _turn_idx, _state, _winner_symbol, row, col)
             IN  IF OutOfRange(row, col)
                 THEN a = GameFields @@ [raised |-> "ValueError", msg |-> "out of range"]
                 ELSE _grid[row][col] # None =>
                         a = GameFields @@ [raised |-> "ValueError", msg |-> "occupied"]
    /\ ~EngineOver =>
          \A row \in Coords, col \in Coords :
             LET a == GameEngine_play_turn(grid, current_index, winner, is_draw, row, col)
             IN  IF OutOfRange(row, col)
                 THEN a = EngineFields @@ [ret |-> PyFalse, caught |-> "IndexError"]
                 ELSE grid[row][col] # Blank =>
                         a = EngineFields @@ [ret |-> PyFalse, caught |-> None]

\* an attempt at an occupied cell was rejected and the game goes on
C3_Witness ==
    /\ last.op = "apply_move" /\ last.was = IN_PROGRESS
    /\ last.raised = "ValueError" /\ last.msg = "occupied"
    /\ _state = IN_PROGRESS /\ Occupied(_grid) > 0

-----------------------------------------------------------------------------
(* C4 *)

\* C4: after an accepted apply_move the state is WIN exactly when one of the
\* eight lines holds three equal symbols, and then winner_symbol is the
\* symbol of the player who made the move, never the opponent's.  With X at
\* (0,0),(0,1) and O at (1,0),(1,1), X at (0,2) gives WIN for X.
C4_WinDetection ==
    /\ LET g == [Board_init EXCEPT ![0][0] = "X", ![0][1] = "X",
                                    ![1][0] = "O", ![1][1] = "O"]
           a == Game_apply_move(g, 0, IN_PROGRESS, None, 0, 2)
       IN  a.state = WIN /\ a.winner_symbol = "X" /\ a.raised = None
    /\ [][AcceptedApplyMove =>
            /\ _state' = WIN <=> HasLine(_grid')
            /\ _state' = WIN =>
                  /\ _winner_symbol' = Game_player_symbol(_turn_idx)
                  /\ HasLineOf(_grid', Game_player_symbol(_turn_idx))
                  /\ ~HasLineOf(_grid', Game_player_symbol(1 - _turn_idx))]_vars

\* the example: X completed the top row over O's two marks in the middle row
C4_Witness ==
    /\ last.op = "apply_move" /\ last.raised = None
    /\ _grid = [Board_init EXCEPT ![0][0] = "X", ![0][1] = "X", ![0][2] = "X",
                                  ![1][0] = "O", ![1][1] = "O"]
    /\ _state = WIN /\ _winner_symbol = "X"

-----------------------------------------------------------------------------
(* C5 *)

\* X O X / X O O / O X X
DrawExample ==
    << <<"X", "O", "X">>, <<"X", "O", "O">>, <<"O", "X", "X">> >>

\* C5: in both engines an accepted move yields a draw exactly when it fills
\* the last empty cell and no line of three equal symbols exists; a move
\* that fills the board and completes a line yields Won; a draw records no
\* winner.
C5_DrawDetection ==
    [][/\ AcceptedApplyMove =>
            /\ _state' = DRAW <=> (is_full(_grid') /\ ~HasLine(_grid'))
            /\ (is_full(_grid') /\ HasLine(_grid')) => _state' = WIN
            /\ _state' = DRAW => _winner_symbol' = None
       /\ AcceptedPlayTurn =>
            /\ is_draw' <=> (Occupied(grid') = SIZE * SIZE /\ ~HasLine(grid'))
            /\ (Occupied(grid') = SIZE * SIZE /\ HasLine(grid')) =>
                  (winner' # None /\ ~is_draw')
            /\ is_draw' => winner' = None]_vars

\* the example board was played to the end and is a draw
C5_Witness ==
    /\ last.op = "apply_move" /\ last.raised = None
    /\ \A r \in Idx, c \in Idx : _grid[r][c] = DrawExample[r + 1][c + 1]
    /\ _state = DRAW /\ _winner_symbol = None

\* a ninth move that fills the board and completes a line: Won, not Draw
C5_WitnessNinthMoveWins ==
    /\ last.op = "play_turn" /\ last.ret = PyTrue
    /\ Occupied(grid) = SIZE * SIZE /\ winner = "player_one" /\ ~is_draw

-----------------------------------------------------------------------------
(* C6 *)

\* C6: at most one of Won / Draw holds; the winner is recorded exactly when
\* the status is Won; and a Won or Draw status is kept by every further move
\* attempt, until a reset.
C6_StatusInvariant ==
    /\ [](/\ _state \in {IN_PROGRESS, WIN, DRAW}
          /\ _winner_symbol # None <=> _state = WIN
          /\ _winner_symbol \in {None, "X", "O"}
          /\ ~(winner # None /\ is_draw)
          /\ winner \in {None, "player_one", "player_two"})
    /\ [][/\ (GameOver /\ last'.op # "reset") =>
               (_state' = _state /\ _winner_symbol' = _winner_symbol)
          /\ EngineOver => (winner' = winner /\ is_draw' = is_draw)]_vars

\* a further attempt was made on a drawn game, which is still drawn
C6_Witness ==
    /\ last.op = "play_turn" /\ last.was = DRAW /\ last.ret = PyFalse
    /\ is_draw /\ winner = None

-----------------------------------------------------------------------------
(* C7 *)

\* C7: Game.reset() in any reachable state leaves exactly the fields of a
\* freshly constructed Game (nine empty cells, X-holder to move, IN_PROGRESS,
\* no winner), and no other operation leaves a terminal state.
C7_ResetIsFresh ==
    /\ [](/\ Game_reset(_grid, _turn_idx, _state, _winner_symbol) = FreshGame
          /\ last.op = "reset" =>
                (GameFields = FreshGame /\ Game_player_symbol(_turn_idx) = "X"))
    /\ [][(GameOver /\ ~GameOver') => last'.op = "reset"]_vars

\* a won game was reset
C7_Witness ==
    /\ last.op = "reset" /\ last.was = WIN
    /\ _state = IN_PROGRESS /\ Occupied(_grid) = 0

-----------------------------------------------------------------------------
(* C8 *)

\* C8: in both Board classes a place_mark on an empty cell succeeds, turns
\* exactly that cell from empty into the symbol and leaves the other eight
\* cells as they were, and the cell is then no longer empty; and without a
\* reset, no marked cell becomes empty again or changes its symbol.
C8_PlaceMarkFrame ==
    /\ [](\A row \in Idx, col \in Idx, symbol \in VALID_SYMBOLS :
            /\ _grid[row][col] = None =>
                  LET a == Board_place_mark(_grid, row, col, symbol)
                  IN  /\ a.raised = None
                      /\ a.grid[row][col] = symbol
                      /\ ~is_cell_empty(a.grid, row, col)
                      /\ \A r \in Idx, c \in Idx :
                            <<r, c>> # <<row, col>> => a.grid[r][c] = _grid[r][c]
            /\ grid[row][col] = Blank =>
                  LET b == Revised_Board_place_mark(grid, row, col, symbol)
                  IN  /\ b.raised = None /\ b.ret = PyTrue
                      /\ b.grid[row][col] = symbol
                      /\ \A r \in Idx, c \in Idx :
                            <<r, c>> # <<row, col>> => b.grid[r][c] = grid[r][c])
    /\ [][last'.op # "board_reset" =>
            \A r \in Idx, c \in Idx :
               /\ _grid[r][c] # None => _grid'[r][c] = _grid[r][c]
               /\ grid[r][c] # Blank => grid'[r][c] = grid[r][c]]_vars

\* a second mark was placed on the revised board, next to the first
C8_Witness ==
    /\ program = "onescript"
    /\ last.op = "place_mark" /\ last.ret = PyTrue
    /\ Occupied(grid) = 2

-----------------------------------------------------------------------------
(* C9 *)

\* C9: place_mark fails and leaves every cell as it was when row or col is
\* outside 0..2, the symbol is not X or O, or the cell is occupied (by the
\* same symbol or the other one).  board.py raises ValueError in each case;
\* the revised Board raises for bad coordinates or symbol and returns False
\* for an occupied cell.
C9_PlaceMarkFailsCleanly ==
    \A row \in Coords, col \in Coords, symbol \in OfferedSymbols :
       LET bad == OutOfRange(row, col) \/ symbol \notin {"X", "O"}
           a == Board_place_mark(_grid, row, col, symbol)
           b == Revised_Board_place_mark(grid, row, col, symbol)
       IN  IF bad
           THEN /\ a.grid = _grid /\ a.raised = "ValueError"
                /\ b.grid = grid /\ b.raised \in {"IndexError", "ValueError"}
           ELSE /\ _grid[row][col] # None => (a.grid = _grid /\ a.raised = "ValueError")
                /\ grid[row][col] # Blank =>
                      (b.grid = grid /\ b.raised = None /\ b.ret = PyFalse)

\* a placement on an occupied cell was refused on a board holding both symbols
C9_Witness ==
    /\ last.op = "place_mark" /\ last.raised = "ValueError" /\ last.msg = "occupied"
    /\ Marks(_grid, "X") > 0 /\ Marks(_grid, "O") > 0

-----------------------------------------------------------------------------
(* C10 *)

\* cell number in row-major order
RowMajor(p) == SIZE * p[1] + p[2]

\* C10: in every reachable state of board.py's Board, available_moves() is
\* the list of exactly the empty cells, each once, in row-major order; its
\* length plus the number of occupied cells is 9; is_full() holds exactly
\* when the list is empty; Game.legal_moves() is the same list; and a list
\* handed out earlier is not changed by later placements.
C10_AvailableMoves ==
    /\ [](LET m == available_moves(_grid)
          IN  /\ \A i \in 1..Len(m) :
                    m[i] \in Idx \X Idx /\ _grid[m[i][1]][m[i][2]] = None
              /\ \A r \in Idx, c \in Idx :
                    _grid[r][c] = None => \E i \in 1..Len(m) : m[i] = <<r, c>>
              /\ \A i \in 1..Len(m), j \in 1..Len(m) :
                    i < j => RowMajor(m[i]) < RowMajor(m[j])
              /\ Len(m) + Occupied(_grid) = SIZE * SIZE
              /\ is_full(_grid) <=> m = <<>>
              /\ Game_legal_moves(_grid) = m
              /\ last.op \in {"available_moves", "legal_moves"} => returned = m)
    /\ [][(returned # NoList /\ returned' # NoList
             /\ last'.op \in {"place_mark", "board_reset"}) =>
            returned' = returned]_vars

\* the caller holds a list that a later placement has made stale
C10_Witness ==
    /\ returned # NoList
    /\ last.op = "place_mark" /\ last.raised = None
    /\ Len(returned) = Len(available_moves(_grid)) + 1

-----------------------------------------------------------------------------
(* Construction: Game.__init__ and the GameEngine dataclass *)

\* a bug: only the first player's symbol is checked
Game_init_checks_first(px, po, board) ==
    IF px # "X"
    THEN [raised |-> "ValueError"]
    ELSE [raised |-> None,
          grid |-> IF board = <<>> THEN Board_init ELSE board[1],
          turn_idx |-> 0, state |-> IN_PROGRESS, winner_symbol |-> None]

\* Game(player_x, player_o, board) for players holding px and po; board is
\* <<>> for the default None, <<b>> for a Board whose grid is b
Game_init(px, po, board) ==
    IF px # "X" \/ po # "O"
    THEN [raised |-> "ValueError"]
    ELSE [raised |-> None,
          grid |-> IF board = <<>> THEN Board_init ELSE board[1],
          turn_idx |-> 0, state |-> IN_PROGRESS, winner_symbol |-> None]

\* GameEngine(player_one, player_two): the generated __init__ stores the
\* fields and checks nothing
GameEngine_init(p1, p2) ==
    [raised |-> None, players |-> <<p1, p2>>, grid |-> Revised_Board_init,
     current_index |-> 0, winner |-> None, is_draw |-> FALSE]

\* nothing is constructed yet; the caller may have a Board of its own
InitSetup ==
    /\ program \in {"modular", "onescript"}
    /\ _grid = Board_init
    /\ _turn_idx = 0
    /\ _state = IN_PROGRESS
    /\ _winner_symbol = None
    /\ grid = Revised_Board_init
    /\ current_index = 0
    /\ winner = None
    /\ is_draw = FALSE
    /\ last = NoCall
    /\ returned = NoList
    /\ held = 0
    /\ players = <<None, None>>
    /\ pc = "setup"

\* Game(px, po) or, with supplied, Game(px, po, board) over the caller's Board
ConstructGame(px, po, supplied) ==
    /\ program = "modular"
    /\ pc = "setup"
    /\ \E a \in {Game_init(px, po, IF supplied THEN <<_grid>> ELSE <<>>)} :
          IF a.raised # None
          THEN /\ pc' = "failed"
               /\ last' = [NoCall EXCEPT !.op = "Game", !.raised = a.raised]
               /\ UNCHANGED <<gameVars, players>>
          ELSE /\ pc' = "ready"
               /\ players' = <<px, po>>
               /\ _grid' = a.grid
               /\ _turn_idx' = a.turn_idx
               /\ _state' = a.state
               /\ _winner_symbol' = a.winner_symbol
               /\ last' = [NoCall EXCEPT !.op = "Game"]
    /\ UNCHANGED <<program, engineVars, returned, held>>

ConstructEngine(p1, p2) ==
    /\ program = "onescript"
    /\ pc = "setup"
    /\ \E a \in {GameEngine_init(p1, p2)} :
          /\ pc' = "ready"
          /\ players' = a.players
          /\ grid' = a.grid
          /\ current_index' = a.current_index
          /\ winner' = a.winner
          /\ is_draw' = a.is_draw
          /\ last' = [NoCall EXCEPT !.op = "GameEngine", !.raised = a.raised]
    /\ UNCHANGED <<program, gameVars, returned, held>>

NextSetup ==
    \/ \E px \in VALID_SYMBOLS, po \in VALID_SYMBOLS, supplied \in BOOLEAN :
          ConstructGame(px, po, supplied)
    \/ \E p1 \in VALID_SYMBOLS, p2 \in VALID_SYMBOLS : ConstructEngine(p1, p2)
    \/ \E row \in Coords, col \in Coords : pc = "ready" /\ ApplyMove(row, col)
    \/ pc = "ready" /\ Reset
    \/ \E row \in Coords, col \in Coords : pc = "ready" /\ PlayTurn(row, col)

SpecSetup == InitSetup /\ [][NextSetup]_vars

-----------------------------------------------------------------------------
(* C11 *)

\* C11: Game(player_x, player_o) raises unless player_x holds X and player_o
\* holds O (X/X, O/O and O/X all fail), and a failed construction leaves no
\* engine: every Game in use was built with (X, O).
C11_GameNeedsXThenO ==
    /\ \A px \in VALID_SYMBOLS, po \in VALID_SYMBOLS :
          /\ Game_init(px, po, <<>>).raised = None <=> (px = "X" /\ po = "O")
          /\ Game_init(px, po, <<>>).raised \in {None, "ValueError"}
    /\ (program = "modular" /\ pc = "ready") => players = <<"X", "O">>
    /\ pc = "failed" =>
          /\ last.op = "Game" /\ last.raised = "ValueError"
          /\ players = <<None, None>>

\* a construction was refused
C11_Witness ==
    /\ program = "modular" /\ pc = "failed"
    /\ last.op = "Game" /\ last.raised = "ValueError"

-----------------------------------------------------------------------------
(* C12 *)

\* C12: GameEngine(player_one, player_two) fails when the two players share
\* a symbol, so no engine in use has both players marking with one symbol.
C12_EngineNeedsComplementarySymbols ==
    /\ \A p \in VALID_SYMBOLS : GameEngine_init(p, p).raised # None
    /\ (program = "onescript" /\ pc = "ready") => players[1] # players[2]

-----------------------------------------------------------------------------
(* main.py: parse_move and one iteration of the play_once loop *)

\* the longest line typed at the prompt
MaxRaw == 3

\* a line is a sequence of characters; "-" is both the sign and, alone or
\* misplaced, what makes int() fail
RawChars == {"0", "1", "2", "3", " ", ",", "-"}
Digits == {"0", "1", "2", "3"}
DigitValue == ("0" :> 0) @@ ("1" :> 1) @@ ("2" :> 2) @@ ("3" :> 3)
RawInputs == UNION {[1..n -> RawChars] : n \in 0..MaxRaw}

RECURSIVE str_lstrip(_)
str_lstrip(s) == IF s # <<>> /\ Head(s) = " " THEN str_lstrip(Tail(s)) ELSE s

RECURSIVE str_rstrip(_)
str_rstrip(s) ==
    IF s # <<>> /\ s[Len(s)] = " " THEN str_rstrip(SubSeq(s, 1, Len(s) - 1)) ELSE s

\* raw.strip()
str_strip(s) == str_rstrip(str_lstrip(s))

\* raw.replace(",", " ")
str_replace(s) == [i \in 1..Len(s) |-> IF s[i] = "," THEN " " ELSE s[i]]

\* raw.split(): the maximal runs of non-blank characters; cur is the run
\* being read and acc the runs read so far
RECURSIVE split_from(_, _, _)
split_from(s, cur, acc) ==
    IF s = <<>>
    THEN IF cur = <<>> THEN acc ELSE Append(acc, cur)
    ELSE IF Head(s) = " "
         THEN split_from(Tail(s), <<>>, IF cur = <<>> THEN acc ELSE Append(acc, cur))
         ELSE split_from(Tail(s), Append(cur, Head(s)), acc)

str_split(s) == split_from(s, <<>>, <<>>)

\* the digits of an int literal, its sign removed
int_digits(p) == IF Head(p) = "-" THEN Tail(p) ELSE p

\* int(p) succeeds: an optional sign followed by at least one digit
int_ok(p) == int_digits(p) # <<>> /\ \A i \in 1..Len(int_digits(p)) : int_digits(p)[i] \in Digits

RECURSIVE digits_value(_)
digits_value(d) ==
    IF d = <<>> THEN 0
    ELSE 10 * digits_value(SubSeq(d, 1, Len(d) - 1)) + DigitValue[d[Len(d)]]

\* int(p)
int_value(p) == IF Head(p) = "-" THEN 0 - digits_value(Tail(p)) ELSE digits_value(p)

\* a bug: the 1-based convention is forgotten
parse_move_zero_based(raw) ==
    LET parts == str_split(str_replace(str_strip(raw)))
    IN  IF Len(parts) # 2
        THEN [raised |-> "ValueError", msg |-> "two numbers", ret |-> <<>>]
        ELSE IF ~(int_ok(parts[1]) /\ int_ok(parts[2]))
        THEN [raised |-> "ValueError", msg |-> "invalid literal", ret |-> <<>>]
        ELSE LET r == int_value(parts[1])
                 c == int_value(parts[2])
             IN  IF ~(0 <= r /\ r <= 2 /\ 0 <= c /\ c <= 2)
                 THEN [raised |-> "ValueError", msg |-> "Row/Col", ret |-> <<>>]
                 ELSE [raised |-> None, msg |-> None, ret |-> <<r, c>>]

\* parse_move(raw): the 0-based (row, col) or the ValueError raised
parse_move(raw) ==
    LET parts == str_split(str_replace(str_strip(raw)))
    IN  IF Len(parts) # 2
        THEN [raised |-> "ValueError", msg |-> "two numbers", ret |-> <<>>]
        ELSE IF ~(int_ok(parts[1]) /\ int_ok(parts[2]))
        THEN [raised |-> "ValueError", msg |-> "invalid literal", ret |-> <<>>]
        ELSE LET r0 == int_value(parts[1])
                 c0 == int_value(parts[2])
                 one_based == r0 \in {1, 2, 3} /\ c0 \in {1, 2, 3}
                 r == IF one_based THEN r0 - 1 ELSE r0
                 c == IF one_based THEN c0 - 1 ELSE c0
             IN  IF ~(0 <= r /\ r <= 2 /\ 0 <= c /\ c <= 2)
                 THEN [raised |-> "ValueError", msg |-> "Row/Col", ret |-> <<>>]
                 ELSE [raised |-> None, msg |-> None, ret |-> <<r, c>>]

\* the ValueErrors of parse_move, as opposed to those of apply_move
ParseErrors == {"two numbers", "invalid literal", "Row/Col"}

\* parse_move of every line, computed once
ParseTable == [raw \in RawInputs |-> parse_move(raw)]

\* the body of the while loop of play_once on the line raw: the fields of
\* the Game afterwards and the exception caught, if any; apply_move is
\* called only when parse_move returned
PlayOnce_turn(g, idx, st, ws, raw) ==
    LET p == ParseTable[raw]
    IN  IF p.raised # None
        THEN [grid |-> g, turn_idx |-> idx, state |-> st, winner_symbol |-> ws,
              raised |-> p.raised, msg |-> p.msg]
        ELSE Game_apply_move(g, idx, st, ws, p.ret[1], p.ret[2])

InitDriver == Init /\ program = "modular"

\* one iteration of `while game.state is GameState.IN_PROGRESS`
PlayOnceTurn(raw) ==
    /\ program = "modular"
    /\ _state = IN_PROGRESS
    /\ \E a \in {PlayOnce_turn(_grid, _turn_idx, _state, _winner_symbol, raw)} :
          /\ _grid' = a.grid
          /\ _turn_idx' = a.turn_idx
          /\ _state' = a.state
          /\ _winner_symbol' = a.winner_symbol
          /\ last' = [NoCall EXCEPT !.op = "play_once", !.was = _state,
                                    !.raised = a.raised, !.msg = a.msg,
                                    !.caught = IF a.raised # None THEN PyTrue ELSE PyFalse]
    /\ UNCHANGED <<program, players, pc, engineVars, returned, held>>

\* main: the game is over and the answer to "Play again?" is yes, so
\* play_once builds a new Game
PlayAgain ==
    /\ program = "modular"
    /\ _state # IN_PROGRESS
    /\ \E a \in {Game_init("X", "O", <<>>)} :
          /\ _grid' = a.grid
          /\ _turn_idx' = a.turn_idx
          /\ _state' = a.state
          /\ _winner_symbol' = a.winner_symbol
    /\ last' = [NoCall EXCEPT !.op = "play_again", !.was = _state]
    /\ UNCHANGED <<program, players, pc, engineVars, returned, held>>

NextDriver ==
    \/ \E raw \in RawInputs : PlayOnceTurn(raw)
    \/ PlayAgain

SpecDriver == InitDriver /\ [][NextDriver]_vars

-----------------------------------------------------------------------------
(* C13 *)

\* the line "r c" for one-digit r and c
Line(r, c) == <<CHOOSE d \in Digits : DigitValue[d] = r, " ",
                CHOOSE d \in Digits : DigitValue[d] = c>>

\* the pair is a cell in neither convention
OutOfBoth(r, c) == ~(r \in 0..2 /\ c \in 0..2) /\ ~(r \in 1..3 /\ c \in 1..3)

\* the turn of play_once on raw, from the current state, stops at parse_move
RejectedByParser(raw) ==
    LET a == PlayOnce_turn(_grid, _turn_idx, _state, _winner_symbol, raw)
    IN  /\ ParseTable[raw].raised = "ValueError"
        /\ a = GameFields @@ [raised |-> "ValueError", msg |-> ParseTable[raw].msg]
        /\ a.msg \in ParseErrors

\* parse_move either returns a cell of the board or raises one of its
\* ValueErrors, whatever the line
ParserTotal ==
    \A raw \in RawInputs :
        IF ParseTable[raw].raised = None
        THEN ParseTable[raw].ret \in Idx \X Idx
        ELSE ParseTable[raw].raised = "ValueError" /\ ParseTable[raw].msg \in ParseErrors

\* C13 as claimed: every 0-based "r c" yields (r, c), every 1-based "r c"
\* yields (r-1, c-1), and a pair out of range in both conventions is
\* rejected before apply_move, leaving the engine untouched.
C13_BothConventions ==
    /\ \A r \in 0..2, c \in 0..2 : ParseTable[Line(r, c)].ret = <<r, c>>
    /\ \A r \in 1..3, c \in 1..3 : ParseTable[Line(r, c)].ret = <<r - 1, c - 1>>
    /\ \A r \in 0..3, c \in 0..3 : OutOfBoth(r, c) => RejectedByParser(Line(r, c))

\* C13 amended: a pair with both numbers in 1..3 is always read as 1-based
\* and yields (r-1, c-1); a 0-based pair yields (r, c) only when a 0 occurs
\* in it; a pair out of range in both conventions, like every line that is
\* not two integers, is rejected before apply_move and changes nothing.
C13_OneBasedWins ==
    /\ \A r \in 0..2, c \in 0..2 :
          (r = 0 \/ c = 0) => ParseTable[Line(r, c)].ret = <<r, c>>
    /\ \A r \in 1..3, c \in 1..3 : ParseTable[Line(r, c)].ret = <<r - 1, c - 1>>
    /\ \A r \in 0..3, c \in 0..3 : OutOfBoth(r, c) => RejectedByParser(Line(r, c))
    /\ ParserTotal
    /\ \A raw \in {<<>>, <<"1">>, <<"1", "-", "1">>, <<"-", " ", "1">>} :
          RejectedByParser(raw)
    /\ last.op = "play_once" /\ last.raised = None => Occupied(_grid) >= 1

\* after a move was placed, a line was rejected by the range check of
\* parse_move
C13_Witness ==
    /\ last.op = "play_once" /\ last.raised = "ValueError" /\ last.msg = "Row/Col"
    /\ Occupied(_grid) >= 1
    /\ _grid[0][0] = "X"

-----------------------------------------------------------------------------
(* ComputerPlayer.choose_move *)

\* a bug: the emptiness filter is missing
RECURSIVE Computer_available_unfiltered(_, _)
Computer_available_unfiltered(g, k) ==
    IF k = SIZE * SIZE THEN <<>>
    ELSE <<<<k \div SIZE, k % SIZE>>>> \o Computer_available_unfiltered(g, k + 1)

\* the list `available`, built row by row, from the k-th cell on
RECURSIVE Computer_available(_, _)
Computer_available(g, k) ==
    IF k = SIZE * SIZE THEN <<>>
    ELSE (IF g[k \div SIZE][k % SIZE] = Blank
          THEN <<<<k \div SIZE, k % SIZE>>>> ELSE <<>>)
         \o Computer_available(g, k + 1)

\* the positions random.choice may pick in `available` (one dummy position
\* when the list is empty and the choice is never made)
RandomChoices(g) ==
    IF Computer_available(g, 0) = <<>> THEN {1} ELSE 1..Len(Computer_available(g, 0))

\* choose_move(board) when random.choice picks position k
choose_move(g, k) ==
    LET available == Computer_available(g, 0)
    IN  IF available = <<>>
        THEN [grid |-> g, raised |-> "RuntimeError", ret |-> <<>>]
        ELSE [grid |-> g, raised |-> None, ret |-> available[k]]

InitChoose == Init /\ program = "onescript"

ChooseMove(k) ==
    /\ program = "onescript"
    /\ k \in RandomChoices(grid)
    /\ \E a \in {choose_move(grid, k)} :
          /\ grid' = a.grid
          /\ last' = [NoCall EXCEPT !.op = "choose_move", !.raised = a.raised]
    /\ UNCHANGED <<program, players, pc, gameVars, current_index, winner, is_draw, returned, held>>

\* any board a caller can build, handed to choose_move
NextChoose ==
    \/ \E row \in Idx, col \in Idx, symbol \in VALID_SYMBOLS :
          RevisedPlaceMark(row, col, symbol)
    \/ RevisedBoardReset
    \/ \E k \in 1..(SIZE * SIZE) : ChooseMove(k)

SpecChoose == InitChoose /\ [][NextChoose]_vars

-----------------------------------------------------------------------------
(* C14 *)

\* C14: whatever the board and whatever random.choice picks, choose_move
\* returns a cell that is empty, raises RuntimeError exactly when no cell is
\* empty, and leaves the board as it was.
C14_ChooseMove ==
    \A k \in RandomChoices(grid) :
        LET a == choose_move(grid, k)
        IN  /\ a.grid = grid
            /\ a.raised \in {None, "RuntimeError"}
            /\ a.raised = "RuntimeError" <=> (\A r \in Idx, c \in Idx : grid[r][c] # Blank)
            /\ a.raised = None =>
                  /\ a.ret \in Idx \X Idx
                  /\ grid[a.ret[1]][a.ret[2]] = Blank

\* choose_move returned on a board with occupied cells and several free ones
C14_Witness ==
    /\ last.op = "choose_move" /\ last.raised = None
    /\ Cardinality({p \in Idx \X Idx : grid[p[1]][p[2]] # Blank}) = 6

\* choose_move raised on a full board
C14_WitnessFull ==
    /\ last.op = "choose_move" /\ last.raised = "RuntimeError"
    /\ \A r \in Idx, c \in Idx : grid[r][c] # Blank

-----------------------------------------------------------------------------
(* ConsoleGame.run for create_console_game(name, vs_computer=True) *)

\* isinstance(player, ComputerPlayer): player_two is the computer
Console_is_computer(idx) == idx = 1

\* one line at the prompt of _prompt_for_move: asked again, or the 0-based
\* cell returned
prompt_for_move(raw) ==
    LET parts == str_split(str_strip(raw))
    IN  IF Len(parts) # 2 THEN [again |-> TRUE, ret |-> <<>>]
        ELSE IF ~(int_ok(parts[1]) /\ int_ok(parts[2])) THEN [again |-> TRUE, ret |-> <<>>]
        ELSE LET row == int_value(parts[1]) - 1
                 col == int_value(parts[2]) - 1
             IN  IF ~(0 <= row /\ row < SIZE /\ 0 <= col /\ col < SIZE)
                 THEN [again |-> TRUE, ret |-> <<>>]
                 ELSE [again |-> FALSE, ret |-> <<row, col>>]

PromptTable == [raw \in RawInputs |-> prompt_for_move(raw)]

\* create_console_game: GameEngine(Player(X), ComputerPlayer(O)), run() at
\* the head of its loop
InitConsole ==
    /\ Init
    /\ program = "onescript"

\* the human's turn on one typed line: asked again, or play_turn is called
HumanTurn(raw) ==
    /\ program = "onescript"
    /\ pc = "ready"
    /\ ~Engine_is_over(winner, is_draw)
    /\ ~Console_is_computer(current_index)
    /\ IF PromptTable[raw].again
       THEN /\ last' = [NoCall EXCEPT !.op = "prompt",
                                      !.was = Engine_status(winner, is_draw)]
            /\ UNCHANGED engineVars
       ELSE \E a \in {GameEngine_play_turn(grid, current_index, winner, is_draw,
                                           PromptTable[raw].ret[1],
                                           PromptTable[raw].ret[2])} :
               /\ grid' = a.grid
               /\ current_index' = a.current_index
               /\ winner' = a.winner
               /\ is_draw' = a.is_draw
               /\ last' = [NoCall EXCEPT !.op = "human_turn",
                                         !.was = Engine_status(winner, is_draw),
                                         !.ret = a.ret, !.caught = a.caught]
    /\ UNCHANGED <<program, players, pc, gameVars, returned, held>>

\* the computer's turn: choose_move, whose RuntimeError would leave run(),
\* then play_turn on the chosen cell
ComputerTurn(k) ==
    /\ program = "onescript"
    /\ pc = "ready"
    /\ ~Engine_is_over(winner, is_draw)
    /\ Console_is_computer(current_index)
    /\ k \in RandomChoices(grid)
    /\ \E ch \in {choose_move(grid, k)} :
          IF ch.raised # None
          THEN /\ pc' = "crashed"
               /\ last' = [NoCall EXCEPT !.op = "computer_turn",
                                         !.was = Engine_status(winner, is_draw),
                                         !.raised = ch.raised]
               /\ UNCHANGED engineVars
          ELSE \E a \in {GameEngine_play_turn(grid, current_index, winner, is_draw,
                                              ch.ret[1], ch.ret[2])} :
                  /\ pc' = pc
                  /\ grid' = a.grid
                  /\ current_index' = a.current_index
                  /\ winner' = a.winner
                  /\ is_draw' = a.is_draw
                  /\ last' = [NoCall EXCEPT !.op = "computer_turn",
                                            !.was = Engine_status(winner, is_draw),
                                            !.ret = a.ret, !.caught = a.caught]
    /\ UNCHANGED <<program, players, gameVars, returned, held>>

\* the loop condition fails: the board is printed, the result announced
RunExit ==
    /\ program = "onescript"
    /\ pc = "ready"
    /\ Engine_is_over(winner, is_draw)
    /\ pc' = "done"
    /\ last' = [NoCall EXCEPT !.op = "run_exit", !.was = Engine_status(winner, is_draw)]
    /\ UNCHANGED <<program, players, gameVars, engineVars, returned, held>>

NextConsole ==
    \/ \E raw \in RawInputs : HumanTurn(raw)
    \/ \E k \in 1..(SIZE * SIZE) : ComputerTurn(k)
    \/ RunExit

SpecConsole == InitConsole /\ [][NextConsole]_vars

-----------------------------------------------------------------------------
(* C15 *)

\* C15: in the console loop of human X against computer O, choose_move is
\* never called on a full board and never raises, every move the computer
\* chooses is accepted by play_turn, turns are taken only while the game is
\* undecided, and the loop has exited only with a winner or a draw.
C15_ConsoleLoop ==
    /\ pc # "crashed"
    /\ last.raised = None
    /\ (pc = "ready" /\ ~EngineOver /\ Console_is_computer(current_index)) =>
          ~(\A r \in Idx, c \in Idx : grid[r][c] # Blank)
    /\ last.op = "computer_turn" => last.ret = PyTrue
    /\ last.op \in {"prompt", "human_turn", "computer_turn"} => last.was = IN_PROGRESS
    /\ pc = "done" => EngineOver
    /\ (pc = "ready" /\ EngineOver) => last.op \in {"human_turn", "computer_turn"}
    /\ last.op = "run_exit" => pc = "done" /\ last.was \in {WIN, DRAW}

\* the loop has exited on a draw after the computer played its four moves
C15_Witness ==
    /\ pc = "done" /\ is_draw /\ winner = None
    /\ Marks(grid, "O") = 4

\* the computer completed a line and the loop exited
C15_WitnessComputerWins ==
    /\ pc = "done" /\ winner = "player_two"

-----------------------------------------------------------------------------
(* The two engines side by side, fed the same move attempts *)

\* Game(Player(X), Player(O)) and GameEngine(Player(X), Player(O))
InitBoth ==
    /\ program = "both"
    /\ \E a \in {Game_init("X", "O", <<>>)} :
          /\ _grid = a.grid
          /\ _turn_idx = a.turn_idx
          /\ _state = a.state
          /\ _winner_symbol = a.winner_symbol
    /\ \E b \in {GameEngine_init("X", "O")} :
          /\ players = b.players
          /\ grid = b.grid
          /\ current_index = b.current_index
          /\ winner = b.winner
          /\ is_draw = b.is_draw
    /\ last = NoCall
    /\ returned = NoList
    /\ held = 0
    /\ pc = "ready"

\* game.apply_move(row, col) and engine.play_turn(row, col)
BothMove(row, col) ==
    /\ program = "both"
    /\ \E a \in {Game_apply_move(_grid, _turn_idx, _state, _winner_symbol, row, col)},
          b \in {GameEngine_play_turn(grid, current_index, winner, is_draw, row, col)} :
          /\ _grid' = a.grid
          /\ _turn_idx' = a.turn_idx
          /\ _state' = a.state
          /\ _winner_symbol' = a.winner_symbol
          /\ grid' = b.grid
          /\ current_index' = b.current_index
          /\ winner' = b.winner
          /\ is_draw' = b.is_draw
          /\ last' = [NoCall EXCEPT !.op = "both", !.was = _state,
                                    !.raised = a.raised, !.msg = a.msg,
                                    !.ret = b.ret, !.caught = b.caught]
    /\ UNCHANGED <<program, players, pc, returned, held>>

NextBoth == \E row \in Coords, col \in Coords : BothMove(row, col)

SpecBoth == InitBoth /\ [][NextBoth]_vars

-----------------------------------------------------------------------------
(* C16 *)

\* the symbol of the player the engine names as winner
WinnerSymbol(w) ==
    IF w = "player_one" THEN players[1] ELSE IF w = "player_two" THEN players[2] ELSE None

\* C16: fed the same move attempts from an empty board, Game and GameEngine
\* agree after every step on whether the attempt was accepted (a raise and a
\* False both count as rejected), on all nine cells, on whose turn it is and
\* on the outcome (in progress, won by the same symbol, draw).
C16_EnginesAgree ==
    /\ last.op = "both" => (last.raised = None <=> last.ret = PyTrue)
    /\ \A r \in Idx, c \in Idx :
          IF _grid[r][c] = None THEN grid[r][c] = Blank ELSE grid[r][c] = _grid[r][c]
    /\ _turn_idx = current_index
    /\ Game_player_symbol(_turn_idx) = Engine_player_symbol(current_index)
    /\ _state = Engine_status(winner, is_draw)
    /\ _winner_symbol = WinnerSymbol(winner)

\* O has won in both engines
C16_Witness ==
    /\ last.op = "both"
    /\ _state = WIN /\ _winner_symbol = "O" /\ winner = "player_two"
    /\ HasLineOf(_grid, "O") /\ HasLineOf(grid, "O")

\* an attempt on an occupied cell was refused by both engines
C16_WitnessRejected ==
    /\ last.op = "both" /\ last.raised = "ValueError" /\ last.msg = "occupied"
    /\ last.ret = PyFalse /\ _state = IN_PROGRESS

-----------------------------------------------------------------------------
(* A Game built over a Board the caller has already used *)

InitSupplied == InitSetup /\ program = "modular"

\* the caller fills its own Board, hands it (or no board) to Game(...), and
\* plays
NextSupplied ==
    \/ \E row \in Idx, col \in Idx, symbol \in VALID_SYMBOLS :
          pc = "setup" /\ PlaceMark(row, col, symbol)
    \/ \E px \in VALID_SYMBOLS, po \in VALID_SYMBOLS, supplied \in BOOLEAN :
          ConstructGame(px, po, supplied)
    \/ \E row \in Idx, col \in Idx : pc = "ready" /\ ApplyMove(row, col)

SpecSupplied == InitSupplied /\ [][NextSupplied]_vars

-----------------------------------------------------------------------------
(* C17 *)

\* C17: for a Game built over any caller-supplied Board the status reflects
\* the board from construction on: the state is IN_PROGRESS only while no
\* line of three equal symbols is complete and a cell is empty, so a game
\* in progress always has a move that apply_move accepts.
C17_StatusReflectsSuppliedBoard ==
    (program = "modular" /\ pc = "ready" /\ _state = IN_PROGRESS) =>
        /\ ~HasLine(_grid)
        /\ ~is_full(_grid)
        /\ \E row \in Idx, col \in Idx :
              Game_apply_move(_grid, _turn_idx, _state, _winner_symbol, row, col).raised = None

\* the weaker half alone: a game in progress has a move apply_move accepts
C17_InProgressHasMove ==
    (program = "modular" /\ pc = "ready" /\ _state = IN_PROGRESS) =>
        \E row \in Idx, col \in Idx :
            Game_apply_move(_grid, _turn_idx, _state, _winner_symbol, row, col).raised = None

-----------------------------------------------------------------------------
(* C18 *)

\* C18: on a Game started with an empty board, after any move attempts and
\* resets, X has as many marks as O or one more; while the game is in
\* progress it is X's turn exactly when the counts are equal and O's turn
\* exactly when X has one more; and X and O never both have a completed
\* line.
C18_MarkCounts ==
    program = "modular" =>
        /\ Marks(_grid, "X") - Marks(_grid, "O") \in {0, 1}
        /\ _state = IN_PROGRESS =>
              /\ Game_player_symbol(_turn_idx) = "X" <=> Marks(_grid, "X") = Marks(_grid, "O")
              /\ Game_player_symbol(_turn_idx) = "O" <=>
                    Marks(_grid, "X") = Marks(_grid, "O") + 1
        /\ ~(HasLineOf(_grid, "X") /\ HasLineOf(_grid, "O"))

\* a game in progress after three moves: O is to move
C18_Witness ==
    /\ program = "modular" /\ _state = IN_PROGRESS /\ last.op = "apply_move"
    /\ Marks(_grid, "X") = 2 /\ Marks(_grid, "O") = 1
    /\ Game_player_symbol(_turn_idx) = "O"

-----------------------------------------------------------------------------
(* One game, played by a driver that keeps submitting moves *)

\* the driver submits a legal move: an empty cell of a game in progress
LegalApplyMove ==
    \E row \in Idx, col \in Idx :
        /\ _state = IN_PROGRESS
        /\ is_cell_empty(_grid, row, col)
        /\ ApplyMove(row, col)

LegalPlayTurn ==
    \E row \in Idx, col \in Idx :
        /\ ~Engine_is_over(winner, is_draw)
        /\ grid[row][col] = Blank
        /\ PlayTurn(row, col)

\* move attempts only, no reset: one pass through the loop of play_once or
\* of ConsoleGame.run per step
NextFair ==
    \/ \E row \in Coords, col \in Coords : ApplyMove(row, col)
    \/ \E row \in Coords, col \in Coords : PlayTurn(row, col)

\* both loops ask again until the game is over, so a legal move that stays
\* possible is eventually submitted
SpecFair == Init /\ [][NextFair]_vars /\ WF_vars(LegalApplyMove) /\ WF_vars(LegalPlayTurn)

-----------------------------------------------------------------------------
(* C19 *)

\* the marks on the board of the program that runs
MarksPlaced == IF program = "modular" THEN Occupied(_grid) ELSE Occupied(grid)

RunningGameOver == IF program = "modular" THEN GameOver ELSE EngineOver

\* C19: every game started on an empty board ends. Each successful move
\* adds one mark and a rejected attempt changes nothing, so the marks count
\* the successful moves; the game is over only after at least 5 of them,
\* is always over after the 9th, and, when the driver eventually submits a
\* legal move whenever one exists, it does become WIN or DRAW.
C19_Termination ==
    /\ [](/\ MarksPlaced <= SIZE * SIZE
          /\ RunningGameOver => MarksPlaced >= 5
          /\ MarksPlaced = SIZE * SIZE => RunningGameOver)
    /\ [][/\ (AcceptedApplyMove \/ AcceptedPlayTurn) =>
               (~RunningGameOver /\ MarksPlaced' = MarksPlaced + 1)
          /\ ~(AcceptedApplyMove \/ AcceptedPlayTurn) =>
               UNCHANGED <<gameVars, engineVars>>]_vars
    /\ <>RunningGameOver

\* a game won by the fifth successful move
C19_Witness ==
    /\ program = "modular" /\ _state = WIN /\ last.op = "apply_move"
    /\ last.raised = None /\ Occupied(_grid) = 5

\* a game that took all nine moves
C19_WitnessNine ==
    /\ program = "onescript" /\ EngineOver /\ Occupied(grid) = SIZE * SIZE
    /\ last.op = "play_turn" /\ last.ret = PyTrue

====
